---------------------------- MODULE Spec2Model ----------------------------
(***************************************************************************)
(* Model of run_manual_examples.py: the differential test harness that     *)
(* walks engine_files/<operator>/<example>, runs each example through the  *)
(* engine (run_test), records one outcome tuple per example, writes        *)
(* test_result.csv for an unfiltered run and prints the run summary.       *)
(*                                                                         *)
(* Python str values whose characters matter (example names, exception     *)
(* messages, data_type tags) are sequences of one-character strings, so    *)
(* that `in`, iteration and str.replace work on them as they do in Python. *)
(* Operator (group) names are only ever used as dict keys and are plain    *)
(* strings.                                                                *)
(***************************************************************************)
EXTENDS Naturals, Sequences, FiniteSets

VARIABLES
    selected_tests,   \* main's argument: [none, d] (None, or a dict operator -> value)
    not_implemented,  \* main's argument: [none, d]
    results,          \* main's local list of outcome tuples
    calls,            \* history: one record per invocation of run_test
    todoOps,          \* entries of base_path.iterdir() not yet visited
    cur,              \* the operator directory of the running inner loop ("" if none)
    todoTests,        \* entries of operator_dir.iterdir() not yet visited
    csv_file,         \* rows of test_result.csv
    csv_writes,       \* history: how many times the file was opened for writing
    summary,          \* the numbers main prints at its end
    pc,               \* main's position: groups, cases, summary, done, raised
    structure_dict,   \* format_structure: the caller's raw schema object
    raw0,             \* history: the raw schema as it was loaded
    returned,         \* history: what each call format_structure(structure_dict) returned
    reapplied         \* history: format_structure applied to its own return value

mainVars == <<selected_tests, not_implemented, results, calls, todoOps, cur,
              todoTests, csv_file, csv_writes, summary, pc>>
fmtVars == <<structure_dict, raw0, returned, reapplied>>
vars == <<selected_tests, not_implemented, results, calls, todoOps, cur,
          todoTests, csv_file, csv_writes, summary, pc,
          structure_dict, raw0, returned, reapplied>>

---------------------------------------------------------------------------
(* Bounds                                                                  *)

\* longest exception message the engine raises in a run
MaxMsgLen == 1
\* longest list given as a value of selected_tests / not_implemented
MaxListLen == 2
\* most pieces a data_type tag is glued from
MaxPieces == 2
\* how many times format_structure is called on the same raw object
MaxCalls == 2

---------------------------------------------------------------------------
(* Python str and list primitives                                          *)

\* s[i:] starts with sub
StartsAt(s, sub, i) ==
    /\ i + Len(sub) - 1 <= Len(s)
    /\ \A k \in 1..Len(sub) : s[i + k - 1] = sub[k]

\* sub in s, for two str
StrContains(s, sub) ==
    \E i \in 1..(Len(s) + 1) : StartsAt(s, sub, i)

RECURSIVE ReplaceFrom(_, _, _, _)
ReplaceFrom(s, old, new, i) ==
    IF i > Len(s) THEN <<>>
    ELSE IF StartsAt(s, old, i)
         THEN new \o ReplaceFrom(s, old, new, i + Len(old))
         ELSE <<s[i]>> \o ReplaceFrom(s, old, new, i + 1)

\* s.replace(old, new) for a non-empty old: every non-overlapping occurrence,
\* left to right
StrReplace(s, old, new) == ReplaceFrom(s, old, new, 1)

\* the list or str v as the sequence a for loop over it yields
PyIter(v) ==
    IF v.kind = "list" THEN v.items
    ELSE [i \in 1..Len(v.items) |-> <<v.items[i]>>]

\* x in v: list membership, or substring when v is a str
PyIn(x, v) ==
    IF v.kind = "list" THEN \E i \in 1..Len(v.items) : v.items[i] = x
    ELSE StrContains(v.items, x)

PyList(items) == [kind |-> "list", items |-> items]
PyStr(s) == [kind |-> "str", items |-> s]

\* bool(d) of an Optional[dict]
Truthy(o) == ~o.none /\ DOMAIN o.d # {}

\* d.get(key, [])
DictGet(o, key) == IF key \in DOMAIN o.d THEN o.d[key] ELSE PyList(<<>>)

RECURSIVE SumLen(_, _)
SumLen(d, keys) ==
    IF keys = {} THEN 0
    ELSE LET k == CHOOSE x \in keys : TRUE
         IN  Len(PyIter(d[k])) + SumLen(d, keys \ {k})

SeqsUpTo(S, n) == UNION {[1..k -> S] : k \in 0..n}


---------------------------------------------------------------------------
(* The fixture tree under engine_files and the caller's arguments          *)

c1 == <<"c", "1">>
c2 == <<"c", "2">>

\* base_path.iterdir(): two operator directories and a plain file
RootEntries == {"G1", "G2", "notes.txt"}

\* operator_dir.is_dir()
IsDir(e) == e \in {"G1", "G2"}

\* operator_dir.iterdir(): the names of the entries of an operator directory
TestEntries(op) == IF op = "G1" THEN {c1, c2} ELSE IF op = "G2" THEN {c1} ELSE {}

\* every (operator, example) pair found on disk
Discovered == {<<op, t>> : op \in {e \in RootEntries : IsDir(e)}, t \in {c1, c2}}
                \cap {p \in RootEntries \X {c1, c2} : p[2] \in TestEntries(p[1])}

\* operator names a caller may give as keys; G9 is not on disk
GroupPool == {"G1", "G2", "G9"}
\* example names a caller may give; G2 has no c2
NamePool == {c1, c2}

\* Union[str, List[str]]
DictValues ==
    {PyList(s) : s \in SeqsUpTo(NamePool, MaxListLen)} \cup {PyStr(n) : n \in NamePool}

PyNone == [none |-> TRUE, d |-> [g \in {} |-> PyList(<<>>)]]
EmptyDict == [none |-> FALSE, d |-> [g \in {} |-> PyList(<<>>)]]

\* Optional[Dict[str, Union[str, List[str]]]]
OptDicts ==
    {PyNone, EmptyDict}
      \cup {[none |-> FALSE, d |-> [g \in {k} |-> v]] : k \in GroupPool, v \in DictValues}

---------------------------------------------------------------------------
(* run_test                                                                *)

NL == "\n"
AssertionErrorText ==
    <<"A", "s", "s", "e", "r", "t", "i", "o", "n", " ", "E", "r", "r", "o", "r">>

\* str(e) of the exceptions the steps of run_test may raise
Messages == SeqsUpTo({"e", NL}, MaxMsgLen)

\* what the fixture and the engine do for one example: some statement of the try
\* block (loading or normalising a schema, loading the reference, locating the
\* datapoints, the engine call, the comparison) raises an Exception with a
\* message, or the engine returns a result equal or not to the reference
Behaviours ==
    {[raises |-> TRUE, msg |-> m, equal |-> FALSE] : m \in Messages}
      \cup {[raises |-> FALSE, msg |-> <<>>, equal |-> b] : b \in BOOLEAN}

\* mutant of FlattenError: the message is kept as it is
FlattenError_Kept(msg) == msg

\* lines 73-75: error = str(e), newlines replaced by spaces
FlattenError(msg) ==
    IF StrContains(msg, <<NL>>) THEN StrReplace(msg, <<NL>>, <<" ">>) ELSE msg

\* lines 52-76: what a call of run_test does. Every statement that may raise is
\* inside the try block and the handler catches Exception, so no exception
\* leaves the call (escapes = FALSE) and ret is the tuple returned
run_test(test_name, operator, b) ==
    IF b.raises
    THEN [escapes |-> FALSE, ret |-> <<operator, test_name, "Fail", FlattenError(b.msg)>>]
    ELSE IF ~b.equal
    THEN [escapes |-> FALSE, ret |-> <<operator, test_name, "Fail", AssertionErrorText>>]
    ELSE [escapes |-> FALSE, ret |-> <<operator, test_name, "Ok", <<>>>>]

---------------------------------------------------------------------------
(* main                                                                    *)

Header == <<"Operator", "Example", "Result", "Error">>
\* whatever test_result.csv held before the run
PriorFile == <<<<"prior">>>>

NoSummary == [printed |-> FALSE, total |-> 0, passed |-> 0, failed |-> 0,
              not_implemented |-> 0, success |-> 0]

\* lines 96-97: one tuple per element of not_implemented[operator]
NotImplementedRows(op) ==
    LET it == PyIter(not_implemented.d[op])
    IN  [i \in 1..Len(it) |-> <<op, it[i], "Not implemented", <<>>>>]

\* lines 101-105
ShouldRun(op, t) ==
    /\ ~Truthy(selected_tests) \/ PyIn(t, DictGet(selected_tests, op))
    /\ ~Truthy(not_implemented) \/ ~PyIn(t, DictGet(not_implemented, op))

\* mutant of Unfiltered: an empty dict is taken for an allow-list
Unfiltered_NoneOnly == selected_tests.none

\* line 112
Unfiltered == selected_tests.none \/ DOMAIN selected_tests.d = {}

RECURSIVE CountOk(_)
CountOk(rs) ==
    IF rs = <<>> THEN 0
    ELSE (IF Head(rs)[3] = "Ok" THEN 1 ELSE 0) + CountOk(Tail(rs))

RECURSIVE CountFail(_)
CountFail(rs) ==
    IF rs = <<>> THEN 0
    ELSE (IF Head(rs)[3] = "Fail" THEN 1 ELSE 0) + CountFail(Tail(rs))

\* mutant of ComputeSummary: failed counts the outcomes with status Fail
ComputeSummary_FailOnly(rs) ==
    LET total == Len(rs)
        passed == CountOk(rs)
    IN  [printed |-> TRUE,
         total |-> total,
         passed |-> passed,
         failed |-> CountFail(rs),
         not_implemented |-> SumLen(not_implemented.d, DOMAIN not_implemented.d),
         success |-> IF total # 0 THEN (passed * 100) \div total ELSE 0]

\* lines 120-124
ComputeSummary(rs) ==
    LET total == Len(rs)
        passed == CountOk(rs)
    IN  [printed |-> TRUE,
         total |-> total,
         passed |-> passed,
         failed |-> total - passed,
         not_implemented |-> SumLen(not_implemented.d, DOMAIN not_implemented.d),
         success |-> IF total # 0 THEN (passed * 100) \div total ELSE 0]

FmtIdle ==
    /\ structure_dict = [structures |-> <<>>]
    /\ raw0 = [structures |-> <<>>]
    /\ returned = <<>>
    /\ reapplied = [done |-> FALSE, raised |-> FALSE, ret |-> [structures |-> <<>>]]

\* lines 84-88
Init ==
    /\ selected_tests \in OptDicts
    /\ not_implemented \in OptDicts
    /\ results = <<>>
    /\ calls = <<>>
    /\ todoOps = RootEntries
    /\ cur = ""
    /\ todoTests = {}
    /\ csv_file = PriorFile
    /\ csv_writes = 0
    /\ summary = NoSummary
    /\ pc = "groups"
    /\ FmtIdle

\* line 91: an entry of engine_files that is no directory is passed over
SkipNonDir(e) ==
    /\ pc = "groups"
    /\ e \in todoOps
    /\ ~IsDir(e)
    /\ todoOps' = todoOps \ {e}
    /\ UNCHANGED <<selected_tests, not_implemented, results, calls, cur, todoTests,
                   csv_file, csv_writes, summary, pc>>
    /\ UNCHANGED fmtVars

\* lines 92-93: continue
SkipGroup(e) ==
    /\ pc = "groups"
    /\ e \in todoOps
    /\ IsDir(e)
    /\ Truthy(selected_tests) /\ e \notin DOMAIN selected_tests.d
    /\ todoOps' = todoOps \ {e}
    /\ UNCHANGED <<selected_tests, not_implemented, results, calls, cur, todoTests,
                   csv_file, csv_writes, summary, pc>>
    /\ UNCHANGED fmtVars

\* lines 95-99: extend results from the deny-list, then start the inner loop
EnterGroup(e) ==
    /\ pc = "groups"
    /\ e \in todoOps
    /\ IsDir(e)
    /\ ~(Truthy(selected_tests) /\ e \notin DOMAIN selected_tests.d)
    /\ todoOps' = todoOps \ {e}
    /\ results' = IF Truthy(not_implemented) /\ e \in DOMAIN not_implemented.d
                  THEN results \o NotImplementedRows(e)
                  ELSE results
    /\ cur' = e
    /\ todoTests' = TestEntries(e)
    /\ pc' = "cases"
    /\ UNCHANGED <<selected_tests, not_implemented, calls, csv_file, csv_writes, summary>>
    /\ UNCHANGED fmtVars

\* lines 100-106 with the condition true: run_test is called and its tuple
\* appended; an exception leaving run_test would leave main too
RunTest(t) ==
    /\ pc = "cases"
    /\ t \in todoTests
    /\ ShouldRun(cur, t)
    /\ \E b \in Behaviours :
         LET r == run_test(t, cur, b)
         IN  /\ calls' = Append(calls, [operator |-> cur, test |-> t, raises |-> b.raises,
                                        msg |-> b.msg, equal |-> b.equal,
                                        escapes |-> r.escapes, ret |-> r.ret])
             /\ IF r.escapes
                THEN /\ pc' = "raised"
                     /\ UNCHANGED <<results, todoTests>>
                ELSE /\ results' = Append(results, r.ret)
                     /\ todoTests' = todoTests \ {t}
                     /\ UNCHANGED pc
    /\ UNCHANGED <<selected_tests, not_implemented, todoOps, cur, csv_file, csv_writes,
                   summary>>
    /\ UNCHANGED fmtVars

\* lines 100-105 with the condition false
SkipTest(t) ==
    /\ pc = "cases"
    /\ t \in todoTests
    /\ ~ShouldRun(cur, t)
    /\ todoTests' = todoTests \ {t}
    /\ UNCHANGED <<selected_tests, not_implemented, results, calls, todoOps, cur,
                   csv_file, csv_writes, summary, pc>>
    /\ UNCHANGED fmtVars

\* line 99: the inner loop is exhausted
LeaveGroup ==
    /\ pc = "cases"
    /\ todoTests = {}
    /\ cur' = ""
    /\ pc' = "groups"
    /\ UNCHANGED <<selected_tests, not_implemented, results, calls, todoOps, todoTests,
                   csv_file, csv_writes, summary>>
    /\ UNCHANGED fmtVars

\* lines 112-118: after the outer loop, the record file of an unfiltered run
Persist ==
    /\ pc = "groups"
    /\ todoOps = {}
    /\ IF Unfiltered
       THEN /\ csv_file' = <<Header>> \o results
            /\ csv_writes' = csv_writes + 1
       ELSE UNCHANGED <<csv_file, csv_writes>>
    /\ pc' = "summary"
    /\ UNCHANGED <<selected_tests, not_implemented, results, calls, todoOps, cur,
                   todoTests, summary>>
    /\ UNCHANGED fmtVars

\* lines 120-132: not_implemented.values() raises AttributeError on None
Summarize ==
    /\ pc = "summary"
    /\ IF not_implemented.none
       THEN /\ pc' = "raised"
            /\ UNCHANGED summary
       ELSE /\ summary' = ComputeSummary(results)
            /\ pc' = "done"
    /\ UNCHANGED <<selected_tests, not_implemented, results, calls, todoOps, cur,
                   todoTests, csv_file, csv_writes>>
    /\ UNCHANGED fmtVars

Next ==
    \/ \E e \in RootEntries : SkipNonDir(e)
    \/ \E e \in RootEntries : SkipGroup(e)
    \/ \E e \in RootEntries : EnterGroup(e)
    \/ \E t \in NamePool : RunTest(t)
    \/ \E t \in NamePool : SkipTest(t)
    \/ LeaveGroup
    \/ Persist
    \/ Summarize

Spec == Init /\ [][Next]_vars

---------------------------------------------------------------------------
(* format_structure                                                        *)

TimePeriod == <<"T", "i", "m", "e", "P", "e", "r", "i", "o", "d">>
Time_Period == <<"T", "i", "m", "e", "_", "P", "e", "r", "i", "o", "d">>
TimeInterval == <<"T", "i", "m", "e", "I", "n", "t", "e", "r", "v", "a", "l">>
Time_Interval == <<"T", "i", "m", "e", "_", "I", "n", "t", "e", "r", "v", "a", "l">>

RECURSIVE ReplaceFirstFrom(_, _, _, _)
ReplaceFirstFrom(s, old, new, i) ==
    IF i > Len(s) THEN <<>>
    ELSE IF StartsAt(s, old, i)
         THEN new \o SubSeq(s, i + Len(old), Len(s))
         ELSE <<s[i]>> \o ReplaceFirstFrom(s, old, new, i + 1)

\* mutant of RewriteTag: only the first occurrence is replaced
RewriteTag_FirstOnly(t) ==
    LET a == ReplaceFirstFrom(t, TimePeriod, Time_Period, 1)
    IN  ReplaceFirstFrom(a, TimeInterval, Time_Interval, 1)

\* lines 18-21: the data_type tag after the two conditional replacements
RewriteTag(t) ==
    LET a == IF StrContains(t, TimePeriod)
             THEN StrReplace(t, TimePeriod, Time_Period) ELSE t
    IN  IF StrContains(a, TimeInterval)
        THEN StrReplace(a, TimeInterval, Time_Interval) ELSE a

\* lines 16-21: the argument after the first loop, data_type rewritten in place
MutatedArg(d) ==
    [d EXCEPT !.structures =
        [i \in DOMAIN d.structures |->
            [d.structures[i] EXCEPT !.components =
                [j \in DOMAIN d.structures[i].components |->
                    [d.structures[i].components[j] EXCEPT
                        !.data_type = RewriteTag(@)]]]]]

\* lines 28-33: one entry of DataStructure
CanonicalComponent(comp) ==
    [name |-> comp.name,
     type |-> comp.data_type,
     role |-> comp.role,
     nullable |-> IF "nullable" \notin DOMAIN comp
                  THEN comp.role # "Identifier"
                  ELSE comp.nullable]

\* lines 23-39: the new structure, read from the (already rewritten) argument
Canonical(d) ==
    [datasets |->
        [i \in DOMAIN d.structures |->
            [name |-> d.structures[i].name,
             DataStructure |->
                [j \in DOMAIN d.structures[i].components |->
                    CanonicalComponent(d.structures[i].components[j])]]]]

KeyError == [error |-> "KeyError: 'structures'"]

\* lines 15-39: a call of format_structure on the object d. arg is the object d
\* after the call; structure_dict["structures"] raises KeyError on a mapping
\* without that key
format_structure(d) ==
    IF "structures" \notin DOMAIN d
    THEN [raised |-> TRUE, arg |-> d, ret |-> KeyError]
    ELSE [raised |-> FALSE, arg |-> MutatedArg(d), ret |-> Canonical(MutatedArg(d))]

\* the pieces data_type tags are glued from
Pieces == {TimePeriod, TimeInterval, <<"T", "i", "m", "e">>}

RECURSIVE Glue(_)
Glue(ps) == IF ps = <<>> THEN <<>> ELSE Head(ps) \o Glue(Tail(ps))

Tags == {Glue(ps) : ps \in SeqsUpTo(Pieces, MaxPieces)}

\* a component as json.load gives it: nullable may be missing
RawComponents(name, role) ==
    {[name |-> name, data_type |-> t, role |-> role] : t \in Tags}
      \cup {[name |-> name, data_type |-> t, role |-> role, nullable |-> n] :
              t \in Tags, n \in BOOLEAN}

\* what load_json returns for input.json: one dataset, an identifier and a measure
RawSchemas ==
    {[structures |-> <<[name |-> "DS_1", components |-> <<a, b>>]>>] :
        a \in RawComponents("Id_1", "Identifier"), b \in RawComponents("Me_1", "Measure")}

MainIdle ==
    /\ selected_tests = PyNone
    /\ not_implemented = PyNone
    /\ results = <<>>
    /\ calls = <<>>
    /\ todoOps = {}
    /\ cur = ""
    /\ todoTests = {}
    /\ csv_file = PriorFile
    /\ csv_writes = 0
    /\ summary = NoSummary
    /\ pc = "format_structure"

\* line 54: load_json(test_dir / "input.json")
InitFmt ==
    /\ MainIdle
    /\ structure_dict \in RawSchemas
    /\ raw0 = structure_dict
    /\ returned = <<>>
    /\ reapplied = [done |-> FALSE, raised |-> FALSE, ret |-> KeyError]

\* format_structure(structure_dict): the object is mutated, the result kept
CallFormat ==
    /\ Len(returned) < MaxCalls
    /\ LET r == format_structure(structure_dict)
       IN  /\ structure_dict' = r.arg
           /\ returned' = Append(returned, [raised |-> r.raised, ret |-> r.ret])
    /\ UNCHANGED <<raw0, reapplied>>
    /\ UNCHANGED mainVars

\* format_structure(format_structure(structure_dict)): the first result is fed back
Reapply ==
    /\ returned # <<>>
    /\ ~reapplied.done
    /\ LET r == format_structure(returned[1].ret)
       IN  reapplied' = [done |-> TRUE, raised |-> r.raised, ret |-> r.ret]
    /\ UNCHANGED <<structure_dict, raw0, returned>>
    /\ UNCHANGED mainVars

NextFmt == CallFormat \/ Reapply

SpecFmt == InitFmt /\ [][NextFmt]_vars

---------------------------------------------------------------------------
(* Vocabulary of the properties                                            *)

\* the outer loop of main has ended
LoopDone == pc \in {"summary", "done", "raised"}

Status(o) == o[3]
Detail(o) == o[4]

\* how many outcomes of the list name the pair (op, t)
NOutcomes(op, t) ==
    Cardinality({i \in DOMAIN results : results[i][1] = op /\ results[i][2] = t})

\* how many times run_test was invoked for the pair (op, t)
NCalls(op, t) ==
    Cardinality({i \in DOMAIN calls : calls[i].operator = op /\ calls[i].test = t})

NStatus(st) == Cardinality({i \in DOMAIN results : Status(results[i]) = st})

\* the value v of an allow- or deny-list names the case t: an element of the
\* list, or the single name given as a string
Names(v, t) ==
    IF v.kind = "list" THEN t \in {v.items[i] : i \in DOMAIN v.items} ELSE v.items = t

AllowListSupplied == ~selected_tests.none /\ DOMAIN selected_tests.d # {}
GroupAllowed(op) == op \in DOMAIN selected_tests.d
CaseAllowed(op, t) == GroupAllowed(op) /\ Names(selected_tests.d[op], t)
CaseDenied(op, t) ==
    /\ ~not_implemented.none
    /\ op \in DOMAIN not_implemented.d
    /\ Names(not_implemented.d[op], t)

---------------------------------------------------------------------------
(* Properties                                                              *)

\* C1: when the loop has ended, every discovered (group, case) pair falls in
\* exactly one class, by precedence: group outside a supplied allow-list: no
\* outcome; else case in the deny-list of its group: exactly one outcome
\* (group, case, "Not implemented", "") and no call of run_test; else case not
\* among the allowed names of a supplied allow-list: no outcome; else run_test
\* called exactly once and its one outcome appended.
C1_SelectionPrecedence ==
    LoopDone =>
      \A p \in Discovered :
        LET op == p[1]
            t == p[2]
        IN  IF AllowListSupplied /\ ~GroupAllowed(op)
            THEN NOutcomes(op, t) = 0 /\ NCalls(op, t) = 0
            ELSE IF CaseDenied(op, t)
            THEN /\ NOutcomes(op, t) = 1
                 /\ NCalls(op, t) = 0
                 /\ \E i \in DOMAIN results :
                      results[i] = <<op, t, "Not implemented", <<>>>>
            ELSE IF AllowListSupplied /\ ~CaseAllowed(op, t)
            THEN NOutcomes(op, t) = 0 /\ NCalls(op, t) = 0
            ELSE NOutcomes(op, t) = 1 /\ NCalls(op, t) = 1

\* C2: every outcome in the results list has status "Fail" if and only if its
\* detail is a non-empty string.
C2_FailIffDetail ==
    \A i \in DOMAIN results :
      (Status(results[i]) = "Fail") <=> (Detail(results[i]) # <<>>)

\* C3: every call of run_test returns one tuple (group, case, status, detail)
\* and lets no exception out: a failure gives "Fail" with the message in which
\* each line break is a space, a differing result gives ("Fail", "Assertion
\* Error"), an equal one ("Ok", ""); the tuple is appended and main raises, if
\* at all, only after the loop has visited every entry.
C3_RunTestNeverRaises ==
    /\ \A i \in DOMAIN calls :
         LET c == calls[i]
             o == c.ret
         IN  /\ ~c.escapes
             /\ o[1] = c.operator /\ o[2] = c.test
             /\ c.raises =>
                  /\ Status(o) = "Fail"
                  /\ Len(Detail(o)) = Len(c.msg)
                  /\ \A k \in DOMAIN c.msg :
                       Detail(o)[k] = IF c.msg[k] = NL THEN " " ELSE c.msg[k]
                  /\ \A k \in DOMAIN Detail(o) : Detail(o)[k] # NL
             /\ (~c.raises /\ ~c.equal) =>
                  Status(o) = "Fail" /\ Detail(o) = AssertionErrorText
             /\ (~c.raises /\ c.equal) => Status(o) = "Ok" /\ Detail(o) = <<>>
             /\ \E j \in DOMAIN results : results[j] = o
    /\ pc = "raised" => todoOps = {} /\ todoTests = {} /\ cur = ""

\* C3 witness: a call failed with a line break in its message and a later case
\* was still run.
C3_Witness ==
    \E i \in DOMAIN calls :
      /\ calls[i].raises
      /\ \E k \in DOMAIN calls[i].msg : calls[i].msg[k] = NL
      /\ i < Len(calls)

\* C4: the printed summary has total = number of outcomes, passed = number of
\* Ok outcomes, failed = total - passed (Fail and Not implemented together),
\* success = floor(passed * 100 / total) for total > 0 and 0 for total = 0, so
\* 0 <= success <= 100.
C4_SummaryArithmetic ==
    /\ pc = "done" => summary.printed
    /\ summary.printed =>
         /\ summary.total = Len(results)
         /\ summary.passed = NStatus("Ok")
         /\ summary.failed = summary.total - summary.passed
         /\ summary.failed = NStatus("Fail") + NStatus("Not implemented")
         /\ summary.total > 0 =>
              /\ summary.success * summary.total <= summary.passed * 100
              /\ summary.passed * 100 < (summary.success + 1) * summary.total
         /\ summary.total = 0 => summary.success = 0
         /\ summary.success \in 0..100

\* C4 witness: a summary over Ok, Fail and Not implemented outcomes with a
\* percentage strictly between 0 and 100.
C4_Witness ==
    /\ summary.printed
    /\ NStatus("Ok") > 0 /\ NStatus("Fail") > 0 /\ NStatus("Not implemented") > 0
    /\ summary.success \in 1..99

\* C5: the not-implemented count of the summary is the number of outcomes with
\* status "Not implemented".
C5_NotImplementedCount ==
    summary.printed => summary.not_implemented = NStatus("Not implemented")

\* C7: the record file is written if and only if no allow-list was supplied;
\* it is written at most once, only after the loop has ended, and then holds the
\* header row followed by one row per outcome in the order of the list; a run
\* with an allow-list leaves the file as it was.
C7_PersistIffUnfiltered ==
    /\ csv_writes <= 1
    /\ csv_writes = 0 => csv_file = PriorFile
    /\ csv_writes = 1 =>
         /\ LoopDone
         /\ ~AllowListSupplied
         /\ Len(csv_file) = 1 + Len(results)
         /\ csv_file[1] = Header
         /\ \A i \in DOMAIN results : csv_file[i + 1] = results[i]
    /\ LoopDone => (csv_writes = 1 <=> ~AllowListSupplied)

\* C7 witness: an unfiltered run has ended and its file holds several rows.
C7_Witness ==
    /\ pc = "done"
    /\ csv_writes = 1
    /\ Len(results) >= 2

\* C8: a run with selected_tests = None and not_implemented = None does not
\* raise: it runs every discovered case once and ends with the summary printed.
C8_DefaultRunCompletes ==
    (selected_tests.none /\ not_implemented.none) =>
      /\ pc # "raised"
      /\ LoopDone => \A p \in Discovered : NCalls(p[1], p[2]) = 1

\* C10: every outcome names a discovered (group, case) pair and no pair has
\* more than one outcome.
C10_OutcomesDiscoveredOnce ==
    /\ \A i \in DOMAIN results : <<results[i][1], results[i][2]>> \in Discovered
    /\ \A i, j \in DOMAIN results :
         (results[i][1] = results[j][1] /\ results[i][2] = results[j][2]) => i = j

\* C6 (as claimed): format_structure applied to the result of format_structure
\* succeeds and yields that same result.
C6_ReapplyToResult ==
    reapplied.done =>
      /\ ~reapplied.raised
      /\ reapplied.ret = returned[1].ret

\* the data_type / type tags of a raw or a canonical schema
RawTags(d) ==
    UNION {{d.structures[i].components[j].data_type :
              j \in DOMAIN d.structures[i].components} : i \in DOMAIN d.structures}
CanonicalTags(r) ==
    UNION {{r.datasets[i].DataStructure[j].type :
              j \in DOMAIN r.datasets[i].DataStructure} : i \in DOMAIN r.datasets}

\* C6 (amended): calling format_structure again on the same raw schema, whose
\* tags the first call rewrote in place, succeeds and returns the same result as
\* the first call, and no tag of the result contains TimePeriod or TimeInterval
\* (rewriting it again changes nothing); format_structure applied to its own
\* result raises KeyError, the result having no key "structures".
C6_RecallIdempotent ==
    /\ \A i \in DOMAIN returned :
         /\ ~returned[i].raised
         /\ returned[i].ret = returned[1].ret
         /\ \A t \in CanonicalTags(returned[i].ret) :
              ~StrContains(t, TimePeriod) /\ ~StrContains(t, TimeInterval)
    /\ reapplied.done => reapplied.raised /\ reapplied.ret = KeyError

\* C6 witness: a schema with a TimePeriod or TimeInterval tag was normalised
\* twice and its result fed back once.
C6_Witness ==
    /\ Len(returned) = 2
    /\ reapplied.done
    /\ \E t \in RawTags(raw0) : StrContains(t, TimePeriod) \/ StrContains(t, TimeInterval)

\* C9: after a call of format_structure its argument is as it was before the
\* call.
C9_ArgumentUnchanged ==
    returned # <<>> => structure_dict = raw0

=============================================================================
